---------------------------- MODULE Spec2Model ----------------------------
(***************************************************************************)
(* A model of pygentic: the streaming tag filter, the agent round loop     *)
(* with its action routing and delegation retries, the token budget, the   *)
(* tag protocol (find, parse with its repair, the classifier), the router  *)
(* of ToolAugmentedTextCompleter and its ActionDispatcher, the ChatHistory *)
(* objects with their clones, the rendering of commands and results, the   *)
(* subscribers of the messenger over several run_agent invocations, and    *)
(* the agent tree built by add_subagent.                                   *)
(*                                                                         *)
(* Modelling conventions.                                                  *)
(*  - Text is a sequence of one-character strings.  The two command        *)
(*    delimiters are abbreviated to two characters each (start_tag "<s"    *)
(*    for "<|tool_use_start|>", end_tag "<e" for "<|tool_use_end|>"):      *)
(*    like the originals they begin with the same character "<", neither   *)
(*    is a substring of the other, and a command body holds no "<".        *)
(*  - The repository is in the middle of a refactoring: several calls use  *)
(*    a name or a signature that the callee no longer has (Message built   *)
(*    without its role, ChatHistory._add_message() without its text,       *)
(*    self.tool_use_helper for the local tool_use_helper, history.write).  *)
(*    Such a statement is modelled by its effect on the state (the append, *)
(*    the lookup); which handler is wired where, what is caught and what   *)
(*    is re-raised are modelled as written.                                *)
(***************************************************************************)
EXTENDS Integers, Sequences, FiniteSets, TLC

VARIABLES
    \* Agent._stream_to_device closure and what the output device was sent
    tool_use_seq, buffer, stream, seen,
    \* the offsets of the streamed text at which a round's completion began
    starts,
    \* the delegating Agent: control position, configuration and conversation
    pc, max_rounds, rounds, history, scratch, backup, exc,
    \* the Delegator's retry loop and the child it runs
    attempt, asks, parent_is_run_out,
    \* what happened so far (observations, never read by the agent)
    trace, ends, snap, scratch_before, undone, tool_calls, child_calls,
    clarifier_calls, tool_error, path, last_resp, returned, parent_asked,
    \* how the Agent was built: its done_tool, and whether it has a parent
    done_tool, has_parent,
    \* how many times the same Agent object was called again
    calls,
    \* run_agent: the quotas, the TokenBudget counters and the abort
    max_eval, max_gen, max_total, in_n, out_n, total_n, generating, aborted,
    \* the tag protocol applied to one text: the input, the function, its result
    text, op, out,
    \* ToolAugmentedTextCompleter routing one parsed command: the command, the
    \* agent it was built with, what the called node does, and the outcome
    command, parent_set, child_end, called, reply,
    \* the action_handlers an ActionDispatcher was built with
    handlers,
    \* ChatHistory objects: the message lists that exist, the lists of
    \* Agent.history and Agent.backup, the messages at the last backup, and
    \* what the last operation raised
    lists, history_ref, backup_ref, snapshot, hist_exc,
    \* rendering a command: what is rendered, the text, and what is read back
    call, rendered, reparsed,
    \* the run_agent invocations of one process: the TokenBudget of each, the
    \* invocation that is running, and the one whose budget ended the process
    budgets, current, abort_by,
    \* the agent tree add_subagent builds: each node's parent and sub-agents
    parent, sub_agents

filterVars == <<tool_use_seq, buffer, stream, seen, starts>>

agentVars == <<pc, max_rounds, rounds, history, scratch, backup, exc,
               attempt, asks, parent_is_run_out, trace, ends, snap,
               scratch_before, undone, tool_calls, child_calls,
               clarifier_calls, tool_error, path, last_resp, returned,
               parent_asked, done_tool, has_parent, calls>>

budgetVars == <<max_eval, max_gen, max_total, in_n, out_n, total_n,
                generating, aborted>>

protoVars == <<text, op, out>>

dispVars == <<command, parent_set, child_end, called, reply, handlers>>

histVars == <<lists, history_ref, backup_ref, snapshot, hist_exc>>

renderVars == <<call, rendered, reparsed>>

runVars == <<budgets, current, abort_by>>

treeVars == <<parent, sub_agents>>

auxVars == <<renderVars, runVars, treeVars>>

vars == <<filterVars, agentVars, budgetVars, protoVars, dispVars, histVars,
          auxVars>>

-----------------------------------------------------------------------------
(* Bounds *)

MaxText == 6        \* characters of completion text fed to the filter
MaxTokenLen == 4    \* characters in one token
MaxRounds == 3      \* largest max_rounds an Agent is built with
MaxAsks == 1        \* questions a child asks its parent in one attempt
MaxQuota == 3       \* largest quota run_agent is given
MaxEval == 2        \* largest tokens_evaluated one completion reports
MaxPlain == 5       \* characters of a completion text taken from Alphabet
MaxBody == 3        \* characters of a command body
MaxCalls == 1       \* times one Agent object is called again
MaxBlankRounds == 5 \* largest max_rounds of an Agent whose completions may be blank
MaxObjects == 4     \* message lists created for one Agent
MaxMessages == 3    \* messages committed to one ChatHistory
MaxRuns == 2        \* run_agent invocations in one process
MaxNodes == 3       \* Agent objects connected into a tree

-----------------------------------------------------------------------------
(* Text helpers: Python str operations on sequences of characters *)

Alphabet == {"<", "s", "e", "a"}

start_tag == <<"<", "s">>
end_tag == <<"<", "e">>

\* s[from:] with a 0-based index
Slice(s, from) == SubSeq(s, from + 1, Len(s))

\* s[from:to]
SliceTo(s, from, to) == SubSeq(s, from + 1, to)

\* tag occurs in s at 0-based offset i
OccursAt(s, tag, i) ==
    /\ i >= 0
    /\ i + Len(tag) <= Len(s)
    /\ SubSeq(s, i + 1, i + Len(tag)) = tag

\* tag in s
Contains(s, tag) == \E i \in 0..Len(s) : OccursAt(s, tag, i)

\* s.index(tag): the lowest offset, for a tag that occurs
Index(s, tag) == CHOOSE i \in 0..Len(s) :
    /\ OccursAt(s, tag, i)
    /\ \A j \in 0..(i - 1) : ~OccursAt(s, tag, j)

Tokens == UNION {[1..n -> Alphabet] : n \in 1..MaxTokenLen}

\* an exception: its class and its args
Exc(t, a) == [type |-> t, args |-> a]

NoExc == Exc("none", "none")

-----------------------------------------------------------------------------
(* Agent._stream_to_device: the closure on_token *)

\* the buffer after the start-tag check
AfterStart(buf) ==
    IF Contains(buf, start_tag)
    THEN Slice(buf, Index(buf, start_tag) + Len(buf))
    ELSE buf

\* the buffer after the end-tag check
AfterEnd(buf) ==
    IF Contains(buf, end_tag)
    THEN Slice(buf, Index(buf, end_tag) + Len(buf))
    ELSE buf

\* tool_use_seq after both checks
SeqAfter(seq, buf) ==
    LET s1 == IF Contains(buf, start_tag) THEN TRUE ELSE seq
    IN  IF Contains(AfterStart(buf), end_tag) THEN FALSE ELSE s1

on_token(token) ==
    LET buf == buffer \o token
    IN  /\ Len(stream) + Len(token) <= MaxText
        /\ stream' = stream \o token
        \* output_device.on_token(token) when not inside a command
        /\ seen' = seen \o [i \in 1..Len(token) |-> ~tool_use_seq]
        /\ tool_use_seq' = SeqAfter(tool_use_seq, buf)
        /\ buffer' = AfterEnd(AfterStart(buf))
        /\ starts' = starts
        /\ UNCHANGED <<agentVars, budgetVars, protoVars, dispVars, histVars, auxVars>>

\* the agent before it is used
AgentIdle ==
    /\ pc = "off"
    /\ max_rounds = 0
    /\ rounds = 0
    /\ history = <<>>
    /\ scratch = <<>>
    /\ backup = <<>>
    /\ exc = NoExc
    /\ attempt = 0
    /\ asks = 0
    /\ parent_is_run_out = FALSE
    /\ trace = <<>>
    /\ ends = <<>>
    /\ snap = <<>>
    /\ scratch_before = <<>>
    /\ undone = FALSE
    /\ tool_calls = 0
    /\ child_calls = 0
    /\ clarifier_calls = 0
    /\ tool_error = "none"
    /\ path = "none"
    /\ last_resp = <<>>
    /\ returned = "none"
    /\ parent_asked = 0
    /\ done_tool = "default"
    /\ has_parent = FALSE
    /\ calls = 0

\* no run_agent in progress
BudgetIdle ==
    /\ max_eval = 0
    /\ max_gen = 0
    /\ max_total = 0
    /\ in_n = 0
    /\ out_n = 0
    /\ total_n = 0
    /\ generating = FALSE
    /\ aborted = "off"

\* the closure as _stream_to_device creates it
FilterStart ==
    /\ tool_use_seq = FALSE
    /\ buffer = <<>>
    /\ stream = <<>>
    /\ seen = <<>>
    /\ starts = {0}

\* a result that has not been computed
NoOut == [kind |-> "none", content |-> <<>>, raised |-> "none", on |-> <<>>,
          attempts |-> 0, braces |-> 0, offset |-> 0, length |-> 0]

\* the tag protocol before it is applied
ProtoIdle ==
    /\ text = <<>>
    /\ op = "off"
    /\ out = NoOut

\* a response that has not been produced
NoReply == [kind |-> "none", section |-> "none", raised |-> "none",
            callees |-> {}]

\* no command is being routed by a completer
DispIdle ==
    /\ command = [action |-> "none", name |-> "none"]
    /\ parent_set = FALSE
    /\ child_end = "none"
    /\ called = "off"
    /\ reply = NoReply
    /\ handlers = {}

\* a command that is not rendered
NoCall == [name |-> <<>>, args |-> <<>>, result |-> "none"]

\* what was read back from a rendered text, before anything is read
NotRead == [raised |-> "none", name |-> <<>>, args |-> <<>>]

\* nothing is rendered
RenderIdle ==
    /\ call = NoCall
    /\ rendered = [by |-> "none", text |-> <<>>]
    /\ reparsed = NotRead

\* run_agent was never invoked
RunIdle ==
    /\ budgets = <<>>
    /\ current = 0
    /\ abort_by = 0

\* no agent exists
TreeIdle ==
    /\ parent = <<>>
    /\ sub_agents = <<>>

AuxIdle == RenderIdle /\ RunIdle /\ TreeIdle

\* no ChatHistory object exists
HistIdle ==
    /\ lists = <<>>
    /\ history_ref = 0
    /\ backup_ref = 0
    /\ snapshot = <<>>
    /\ hist_exc = "off"

FilterInit ==
    FilterStart /\ AgentIdle /\ BudgetIdle /\ ProtoIdle /\ DispIdle /\ HistIdle
    /\ AuxIdle

FilterNext == \E token \in Tokens : on_token(token)

SpecFilter == FilterInit /\ [][FilterNext]_vars

-----------------------------------------------------------------------------
(* The streaming tag filter: what the observer may and may not see *)

\* a command region of s: start_tag at offset p, end_tag at offset q, and a
\* body between them without "<" (GenericToolUse.find's [^<]*)
IsRegion(s, p, q) ==
    /\ OccursAt(s, start_tag, p)
    /\ OccursAt(s, end_tag, q)
    /\ p + Len(start_tag) <= q
    /\ \A k \in (p + Len(start_tag) + 1)..q : s[k] # "<"

\* the 1-based position i of s lies strictly between the delimiters of a region
InBody(s, i) ==
    \E p \in 0..Len(s), q \in 0..Len(s) :
        /\ IsRegion(s, p, q)
        /\ p + Len(start_tag) < i
        /\ i <= q

\* the 1-based position i of s lies in a region, delimiters included
InRegion(s, i) ==
    \E p \in 0..Len(s), q \in 0..Len(s) :
        /\ IsRegion(s, p, q)
        /\ p < i
        /\ i <= q + Len(end_tag)

\* every start delimiter of s opens a region that s also closes
AllClosed(s) ==
    \A p \in 0..Len(s) :
        OccursAt(s, start_tag, p) => \E q \in 0..Len(s) : IsRegion(s, p, q)

RECURSIVE Keep(_, _, _)
\* the characters of s at the positions i..Len(s) that mask marks TRUE
Keep(s, mask, i) ==
    IF i > Len(s) THEN <<>>
    ELSE (IF mask[i] THEN <<s[i]>> ELSE <<>>) \o Keep(s, mask, i + 1)

\* the concatenation of the tokens passed to output_device.on_token
Forwarded == Keep(stream, seen, 1)

\* the text with every command region removed
Stripped(s) == Keep(s, [i \in 1..Len(s) |-> ~InRegion(s, i)], 1)

\* C1: no character of a command body (the text strictly between a start
\* delimiter and its matching end delimiter) is ever passed to the output
\* device's on_token, however the text is split into tokens.
C1_NoBodyCharForwarded ==
    \A i \in 1..Len(stream) : InBody(stream, i) => ~seen[i]

\* C2: for a text all of whose commands are closed, fed in any split into
\* tokens, the concatenation of the forwarded tokens is the text with every
\* command region (delimiters included) removed.
C2_ForwardedIsStripped ==
    AllClosed(stream) => Forwarded = Stripped(stream)

\* C34: once the end delimiter of the current command has fully arrived, the
\* filter is outside a command after processing that token, so that every
\* later token is forwarded; this holds also when the start and the end
\* delimiter arrive inside the same token.
C34_OutsideAfterEndDelimiter ==
    (Contains(stream, start_tag) /\ AllClosed(stream)) => ~tool_use_seq

\* Agent.__call__, lines 177-183: the completer is called for the next round;
\* on_token is the closure line 175 created before the loop, and nothing
\* between two rounds assigns its tool_use_seq or its buffer
next_completion ==
    /\ Len(stream) \notin starts
    /\ Len(stream) < MaxText
    /\ starts' = starts \cup {Len(stream)}
    /\ UNCHANGED <<tool_use_seq, buffer, stream, seen>>
    /\ UNCHANGED <<agentVars, budgetVars, protoVars, dispVars, histVars, auxVars>>

RoundsNext == FilterNext \/ next_completion

\* the filter of one Agent.__call__ over the completions of its rounds
SpecRounds == FilterInit /\ [][RoundsNext]_vars

\* C35: at the start of every round's completion the filter is outside a
\* command and its buffer is empty: a completion that ended inside an
\* unterminated command does not make the filter withhold tokens of the next
\* round's completion.
C35_FreshFilterEachRound ==
    Len(stream) \in starts => (~tool_use_seq /\ buffer = <<>>)

-----------------------------------------------------------------------------
(* The completions an Agent receives, as the tag protocol classifies them *)

\* Agent.tools of the modelled agent: tool1 returns, boom raises when it
\* runs, picky does not accept the arguments it is called with
Tools == {"tool1", "boom", "picky"}

\* what calling self.agent.tools[name](**arg_dict) does
ToolRaises(name) ==
    IF name = "boom" THEN "ValueError"
    ELSE IF name = "picky" THEN "TypeError"
    ELSE "none"

\* Agent.sub_agents of the modelled agent
SubAgents == {"subagent"}

\* Delegator._delegate(arg_dict, retries=3)
Retries == 3

\* the argument mappings a done_tool command carries
Args == {"args0", "args1"}

\* a command region of a completion: parsed says that parse accepts its body,
\* action is its tool_name, target its args["name"], args its args
Resp(parsed, action, target, args) ==
    [parsed |-> parsed, action |-> action, target |-> target, args |-> args]

\* completions with at most one command region, as the sequence of their regions
OneRegion ==
    {<<>>, <<Resp(FALSE, "none", "none", "none")>>}
    \cup {<<Resp(TRUE, a, "none", "args0")>> :
            a \in {"tool1", "boom", "picky", "nope", "clarify"}}
    \cup {<<Resp(TRUE, "done_tool", "none", x)>> : x \in Args}
    \cup {<<Resp(TRUE, "delegate", t, "args0")>> : t \in {"subagent", "ghost"}}

\* completions with two command regions
TwoRegions ==
    {<<Resp(TRUE, "done_tool", "none", "args0"), Resp(TRUE, "tool1", "none", "args0")>>,
     <<Resp(TRUE, "tool1", "none", "args0"), Resp(TRUE, "delegate", "subagent", "args0")>>,
     <<Resp(TRUE, "clarify", "none", "args0"), Resp(TRUE, "tool1", "none", "args0")>>,
     <<Resp(FALSE, "none", "none", "none"), Resp(TRUE, "tool1", "none", "args0")>>}

Responses == OneRegion \cup TwoRegions

\* a search that returns the last match
find_Last(r) == r[Len(r)]

\* GenericToolUse.find: re.search returns the first match
find(r) == r[1]

\* ToolUse.contains_tool_use
contains_tool_use(r) == r # <<>>

\* the kind of round a completion leads to
Kind(r) ==
    IF ~contains_tool_use(r) THEN "text"
    ELSE IF ~find(r).parsed THEN "malformed"
    ELSE find(r).action

\* isinstance(e, cls): ParentOutOfContextError may derive from
\* RunOutOfContextError or stand beside it
IsInstance(e, cls) ==
    \/ e.type = cls
    \/ /\ cls = "RunOutOfContextError"
       /\ e.type = "ParentOutOfContextError"
       /\ parent_is_run_out

-----------------------------------------------------------------------------
(* Agent.__call__: the round loop *)

\* a loop that runs one round too many
MoreRounds_OffByOne(n) == n <= max_rounds

\* for _ in range(self.max_rounds): another round follows n completed ones
MoreRounds(n) == n < max_rounds

\* where control goes after n rounds ended without a return
NextPc(n) == IF MoreRounds(n) THEN "round" ELSE "done"

NextExc(n) ==
    IF MoreRounds(n) THEN NoExc
    ELSE Exc("TooManyRoundsError", "Too many rounds of generation")

\* a router that does not know the terminal action
IsTerminal_Never(action) == FALSE

\* ResponseProcessor._perform_action: action == "done_tool"
IsTerminal(action) == action = "done_tool"

\* ResponseProcessor.error_handler: Agent._prepare_processor passes its
\* error_handler in the position of raw_handler, so none is set
error_handler_set == FALSE

\* ChatHistory.clone
Clone(h) == h

\* a delegation that keeps the backup of an earlier one
BackedUp_Stale(h, b) == b

\* Agent.backup_history: the backup after it, from the live history and the
\* backup there was
BackedUp(h, b) == Clone(h)

\* a restore that keeps the live history
Restored_Noop(h, b) == h

\* Agent.restore_history: the history after it, from the live one and the backup
Restored(h, b) == Clone(b)

\* a _use_tool without the except TypeError clause
use_tool_NoTypeError(tool_name) ==
    IF tool_name \notin Tools THEN Exc("ToolDoesNotExistError", tool_name)
    ELSE IF ToolRaises(tool_name) = "none" THEN NoExc
    ELSE Exc("ToolUseError", tool_name)

\* ToolCaller._use_tool: the exception it raises, NoExc when the tool returned
use_tool(tool_name) ==
    IF tool_name \notin Tools THEN Exc("ToolDoesNotExistError", tool_name)
    ELSE IF ToolRaises(tool_name) = "none" THEN NoExc
    ELSE IF ToolRaises(tool_name) = "TypeError" THEN Exc("BadToolUseError", tool_name)
    ELSE Exc("ToolUseError", tool_name)

\* a ToolCaller that handles only the errors of a tool that ran
ToolCallerCatches_OnlyToolUse(e) == e.type \in {"BadToolUseError", "ToolUseError"}

\* ToolCaller.__call__: except Exception
ToolCallerCatches(e) == e.type # "SystemExit"

\* ToolCaller.__call__: the section rendered for a tool name
ToolOutcome(action) ==
    IF use_tool(action) = NoExc THEN "success" ELSE "error"

\* a do_after_delegate that leaves the provisional call in place
AfterDelegate_NoPop(s, response) == Append(s, response)

\* do_after_delegate: pop the provisional call, write the response
AfterDelegate(s, response) == Append(SubSeq(s, 1, Len(s) - 1), response)

\* a retry loop with a bare except
Caught_Anything(e) == TRUE

\* Delegator._delegate: except RunOutOfContextError
Caught(e) == IsInstance(e, "RunOutOfContextError")

\* a Delegator.__call__ that lets every overflow leave as the node's own
DelegatorCall_Propagate(e) ==
    IF \/ IsInstance(e, "ParentOutOfContextError")
       \/ IsInstance(e, "RunOutOfContextError")
    THEN [raised |-> Exc("RunOutOfContextError", e.args), response |-> "none"]
    ELSE [raised |-> e, response |-> "none"]

\* a Delegator.__call__ that re-raises a parent's overflow as it is
DelegatorCall_PassThrough(e) ==
    IF IsInstance(e, "ParentOutOfContextError")
    THEN [raised |-> e, response |-> "none"]
    ELSE IF IsInstance(e, "RunOutOfContextError")
    THEN [raised |-> NoExc, response |-> "error"]
    ELSE [raised |-> e, response |-> "none"]

\* Delegator.__call__: what becomes of an exception that leaves _delegate
DelegatorCall(e) ==
    IF IsInstance(e, "ParentOutOfContextError")
    THEN [raised |-> Exc("RunOutOfContextError", e.args), response |-> "none"]
    ELSE IF IsInstance(e, "RunOutOfContextError")
    THEN [raised |-> NoExc, response |-> "error"]
    ELSE [raised |-> e, response |-> "none"]

\* TokenBudget._check and run_agent.on_complete: sys.exit()
AbortExc == Exc("SystemExit", "budget")

\* a handler written as a bare except
ExceptException_Bare(e) == TRUE

\* except Exception: SystemExit derives from BaseException only
ExceptException(e) == e.type # "SystemExit"

\* GeneratorWithRetries.__init__(llm, max_retries=3)
MaxRetries == 3

\* GeneratorWithRetries._try_generate: the llm raised e with tries left, and
\* the wrapper generates again
TryGenerateRetries(e, tries) == ExceptException(e) /\ tries > 0

\* Agent.ask_question: what leaves it when its completer raised e
AskQuestionRaise(e) ==
    IF IsInstance(e, "RunOutOfContextError")
    THEN Exc("ParentOutOfContextError", e.args)
    ELSE e

\* Agent.default_done_tool and a done_tool given to Agent.__init__, applied
\* to the argument mapping of the command
ApplyDoneTool(d, args) ==
    IF d = "default" THEN args
    ELSE IF args = "args0" THEN "result0"
    ELSE "result1"

obsVars == <<tool_error, path, last_resp, returned>>

delegVars == <<backup, attempt, asks, ends, snap, scratch_before, undone>>

fixedVars == <<max_rounds, parent_is_run_out, done_tool, has_parent, calls,
               parent_asked, filterVars, budgetVars, protoVars, dispVars, histVars, auxVars>>

\* a round that does not delegate: the locals of an earlier Delegator call
\* are gone, Agent.backup stays
NoDelegation ==
    /\ attempt' = 0
    /\ asks' = 0
    /\ ends' = <<>>
    /\ snap' = <<>>
    /\ scratch_before' = <<>>
    /\ undone' = FALSE
    /\ backup' = backup

\* lines 163-179: the prompt is committed and the loop entered
Call ==
    /\ pc = "ready"
    /\ IF Len(history) % 2 = 0
       THEN /\ history' = Append(history, "prompt")
            /\ pc' = NextPc(0)
            /\ exc' = NextExc(0)
       ELSE /\ history' = history
            /\ pc' = "done"
            /\ exc' = Exc("AssertionError", "add_prompter_message")
    /\ UNCHANGED <<rounds, scratch, trace, tool_calls, child_calls,
                   clarifier_calls, obsVars, delegVars, fixedVars>>

\* lines 185-188: a completion without a command
PlainText ==
    /\ scratch' = Append(scratch, "text")
    /\ pc' = NextPc(rounds + 1)
    /\ exc' = NextExc(rounds + 1)
    /\ path' = "none"
    /\ tool_error' = "none"
    /\ NoDelegation
    /\ UNCHANGED <<history, tool_calls, child_calls, clarifier_calls, returned>>

\* ResponseProcessor.__call__, except InvalidJsonError
SyntaxError ==
    /\ scratch' = IF error_handler_set THEN Append(scratch, "syntax_error")
                  ELSE scratch
    /\ pc' = NextPc(rounds + 1)
    /\ exc' = NextExc(rounds + 1)
    /\ path' = "none"
    /\ tool_error' = "none"
    /\ NoDelegation
    /\ UNCHANGED <<history, tool_calls, child_calls, clarifier_calls, returned>>

\* SolutionComplete(arg_dict) raised by _perform_action and caught by the
\* loop, which returns result.args[0]
Solution(arg_dict) ==
    /\ pc' = "done"
    /\ exc' = NoExc
    /\ returned' = arg_dict
    /\ path' = "terminal"
    /\ tool_error' = "none"
    /\ NoDelegation
    /\ UNCHANGED <<history, scratch, tool_calls, child_calls, clarifier_calls>>

\* ToolCaller and do_after_tool
ToolUse(action) ==
    /\ tool_calls' = IF action \in Tools THEN tool_calls + 1 ELSE tool_calls
    /\ path' = "tool"
    /\ IF use_tool(action) = NoExc \/ ToolCallerCatches(use_tool(action))
       THEN /\ scratch' = Append(scratch, ToolOutcome(action))
            /\ tool_error' = use_tool(action).type
            /\ pc' = NextPc(rounds + 1)
            /\ exc' = NextExc(rounds + 1)
       ELSE /\ scratch' = scratch
            /\ tool_error' = "none"
            /\ pc' = "done"
            /\ exc' = use_tool(action)
    /\ NoDelegation
    /\ UNCHANGED <<history, child_calls, clarifier_calls, returned>>

\* do_before_clarify, then Clarifier(assistant) with assistant = None
Clarify ==
    /\ scratch' = <<>>
    /\ clarifier_calls' = clarifier_calls + (IF Len(history) % 2 = 1 THEN 1 ELSE 0)
    /\ history' = IF Len(history) % 2 = 1 THEN Append(history, "ai") ELSE history
    /\ pc' = "done"
    /\ exc' = IF Len(history) % 2 = 1
              THEN Exc("AttributeError", "ask_question")
              ELSE Exc("AssertionError", "add_ai_message")
    /\ path' = "clarify"
    /\ tool_error' = "none"
    /\ NoDelegation
    /\ UNCHANGED <<tool_calls, child_calls, returned>>

\* do_before_delegate, then Delegator._delegate up to the first call of the child
Delegate(target) ==
    /\ scratch' = Append(scratch, "call")
    /\ IF target \notin SubAgents
       THEN /\ pc' = "done"
            /\ exc' = Exc("KeyError", target)
            /\ ends' = <<>>
            /\ UNCHANGED <<history, child_calls, backup, attempt, asks, snap,
                           scratch_before, undone>>
       ELSE /\ backup' = BackedUp(history, backup)
            /\ history' = Restored(history, BackedUp(history, backup))
            /\ attempt' = 1
            /\ asks' = 0
            /\ ends' = <<>>
            /\ snap' = history
            /\ scratch_before' = scratch
            /\ undone' = FALSE
            /\ child_calls' = child_calls + 1
            /\ pc' = "child"
            /\ exc' = NoExc
    /\ path' = "delegate"
    /\ tool_error' = "none"
    /\ UNCHANGED <<tool_calls, clarifier_calls, returned>>

\* one iteration of the loop at lines 181-196
Round(r) ==
    /\ pc = "round"
    /\ rounds' = rounds + 1
    /\ trace' = Append(trace, Kind(r))
    /\ last_resp' = r
    /\ IF ~contains_tool_use(r) THEN PlainText
       ELSE IF ~find(r).parsed THEN SyntaxError
       ELSE IF IsTerminal(find(r).action) THEN Solution(find(r).args)
       ELSE IF find(r).action = "delegate" THEN Delegate(find(r).target)
       ELSE IF find(r).action = "clarify" THEN Clarify
       ELSE ToolUse(find(r).action)
    /\ UNCHANGED fixedVars

\* line 183: the completer reports that the context is exhausted
RoundOverflow ==
    /\ pc = "round"
    /\ rounds' = rounds + 1
    /\ trace' = Append(trace, "overflow")
    /\ pc' = "done"
    /\ exc' = Exc("RunOutOfContextError", "agent")
    /\ UNCHANGED <<history, scratch, tool_calls, child_calls, clarifier_calls,
                   obsVars, delegVars, fixedVars>>

-----------------------------------------------------------------------------
(* The child of a delegation, and Agent.ask_question answering it *)

\* the child's call ended with exception e while the history was h:
\* Delegator._delegate's except clause and next iteration, or Delegator.__call__
AttemptFailed(e, h) ==
    /\ ends' = Append(ends, e.type)
    /\ IF Caught(e) /\ attempt < Retries
       THEN /\ history' = Restored(h, backup)
            /\ undone' = (undone \/ h # backup)
            /\ attempt' = attempt + 1
            /\ asks' = 0
            /\ child_calls' = child_calls + 1
            /\ UNCHANGED <<pc, exc, scratch>>
       ELSE /\ history' = h
            /\ IF DelegatorCall(e).response = "none"
               THEN /\ pc' = "done"
                    /\ exc' = DelegatorCall(e).raised
                    /\ scratch' = scratch
               ELSE /\ pc' = NextPc(rounds)
                    /\ exc' = NextExc(rounds)
                    /\ scratch' = AfterDelegate(scratch, DelegatorCall(e).response)
            /\ UNCHANGED <<undone, attempt, asks, child_calls>>
    /\ UNCHANGED <<rounds, trace, backup, snap, scratch_before, tool_calls,
                   clarifier_calls, obsVars, fixedVars>>

\* the child asks its parent a question and gets the answer
ChildAsk ==
    /\ pc = "child"
    /\ asks < MaxAsks
    /\ asks' = asks + 1
    /\ history' = history \o <<"question", "answer">>
    /\ UNCHANGED <<pc, rounds, scratch, exc, trace, backup, attempt, ends, snap,
                   scratch_before, undone, tool_calls, child_calls,
                   clarifier_calls, obsVars, fixedVars>>

\* the child asks, the parent's completer overflows: ParentOutOfContextError
ChildAskOverflow ==
    /\ pc = "child"
    /\ asks < MaxAsks
    /\ AttemptFailed(AskQuestionRaise(Exc("RunOutOfContextError", "agent")),
                     Append(history, "question"))

\* the child's own completer overflows
ChildOverflow ==
    /\ pc = "child"
    /\ AttemptFailed(Exc("RunOutOfContextError", "child"), history)

\* the child ends with another exception
ChildError ==
    /\ pc = "child"
    /\ AttemptFailed(Exc("TooManyRoundsError", "child"), history)

\* the child returns: render_with_success and do_after_delegate
ChildReturn ==
    /\ pc = "child"
    /\ ends' = Append(ends, "returned")
    /\ scratch' = AfterDelegate(scratch, "success")
    /\ pc' = NextPc(rounds)
    /\ exc' = NextExc(rounds)
    /\ UNCHANGED <<rounds, history, trace, backup, attempt, asks, snap,
                   scratch_before, undone, tool_calls, child_calls,
                   clarifier_calls, obsVars, fixedVars>>

\* a completion of the top node is cut short by the budget abort
RoundAbort ==
    /\ pc = "round"
    /\ rounds' = rounds + 1
    /\ trace' = Append(trace, "abort")
    /\ IF TryGenerateRetries(AbortExc, MaxRetries)
       THEN UNCHANGED <<pc, exc>>
       ELSE /\ pc' = "done"
            /\ exc' = AbortExc
    /\ UNCHANGED <<history, scratch, tool_calls, child_calls, clarifier_calls,
                   obsVars, delegVars, fixedVars>>

\* the generation wrapper caught e and the node that was completing goes on
GenerationRetried(e) ==
    /\ ends' = Append(ends, e.type)
    /\ UNCHANGED <<pc, rounds, history, scratch, exc, trace, backup, attempt,
                   asks, snap, scratch_before, undone, tool_calls, child_calls,
                   clarifier_calls, obsVars, fixedVars>>

\* a completion of the child is cut short by the budget abort
ChildAbort ==
    /\ pc = "child"
    /\ IF TryGenerateRetries(AbortExc, MaxRetries)
       THEN GenerationRetried(AbortExc)
       ELSE AttemptFailed(AbortExc, history)

\* the child asks, and the parent's completion is cut short by the budget abort
AnswerAbort ==
    /\ pc = "child"
    /\ asks < MaxAsks
    /\ IF TryGenerateRetries(AbortExc, MaxRetries)
       THEN GenerationRetried(AbortExc)
       ELSE AttemptFailed(AskQuestionRaise(AbortExc), Append(history, "question"))

\* Agent.__init__(llm, tools, done_tool=d, max_rounds=N) with N up to n, then
\* registered as the sub-agent of another node (p) or not
AgentNew(d, p, n) ==
    /\ pc = "ready"
    /\ max_rounds \in 1..n
    /\ parent_is_run_out \in BOOLEAN
    /\ rounds = 0
    /\ history = <<>>
    /\ scratch = <<>>
    /\ backup = <<>>
    /\ exc = NoExc
    /\ attempt = 0
    /\ asks = 0
    /\ trace = <<>>
    /\ ends = <<>>
    /\ snap = <<>>
    /\ scratch_before = <<>>
    /\ undone = FALSE
    /\ tool_calls = 0
    /\ child_calls = 0
    /\ clarifier_calls = 0
    /\ tool_error = "none"
    /\ path = "none"
    /\ last_resp = <<>>
    /\ returned = "none"
    /\ parent_asked = 0
    /\ done_tool = d
    /\ has_parent = p
    /\ calls = 0
    /\ FilterStart
    /\ BudgetIdle
    /\ ProtoIdle
    /\ DispIdle
    /\ HistIdle
    /\ AuxIdle

AgentBuilt(d, p) == AgentNew(d, p, MaxRounds)

\* an Agent built with the default done_tool and used as the top node
AgentInit == AgentBuilt("default", FALSE)

\* an Agent built with any done_tool, with or without a parent
ConfiguredInit ==
    \E d \in {"default", "custom"}, p \in BOOLEAN : AgentBuilt(d, p)

AgentNext ==
    \/ Call
    \/ \E r \in Responses : Round(r)
    \/ RoundOverflow
    \/ ChildAsk
    \/ ChildAskOverflow
    \/ ChildOverflow
    \/ ChildError
    \/ ChildReturn
    \/ RoundAbort
    \/ ChildAbort
    \/ AnswerAbort

Spec == AgentInit /\ [][AgentNext]_vars

SpecConfigured == ConfiguredInit /\ [][AgentNext]_vars

\* Delegator._delegate calls the same Agent object again, after it returned
\* (a later delegate command) or after its completion overflowed (a retry):
\* __call__ starts over with the attributes the object has
Reinvoke ==
    /\ pc = "done"
    /\ calls < MaxCalls
    /\ exc = NoExc \/ Caught(exc)
    /\ calls' = calls + 1
    /\ pc' = "ready"
    /\ rounds' = 0
    /\ exc' = NoExc
    /\ trace' = <<>>
    /\ tool_calls' = 0
    /\ child_calls' = 0
    /\ clarifier_calls' = 0
    /\ tool_error' = "none"
    /\ path' = "none"
    /\ last_resp' = <<>>
    /\ returned' = "none"
    /\ NoDelegation
    /\ UNCHANGED <<history, scratch, max_rounds, parent_is_run_out, done_tool,
                   has_parent, parent_asked, filterVars, budgetVars, protoVars,
                   dispVars, histVars, auxVars>>

ReinvokedNext ==
    \/ AgentNext
    \/ Reinvoke

\* an Agent used as a sub-agent and called more than once
SpecReinvoked == AgentInit /\ [][ReinvokedNext]_vars

\* lines 185-188 for a completion that is all whitespace: it holds no
\* command, and is written to the scratch like any other text
BlankRound ==
    /\ pc = "round"
    /\ rounds' = rounds + 1
    /\ trace' = Append(trace, "blank")
    /\ last_resp' = <<>>
    /\ scratch' = Append(scratch, "blank")
    /\ pc' = NextPc(rounds + 1)
    /\ exc' = NextExc(rounds + 1)
    /\ path' = "none"
    /\ tool_error' = "none"
    /\ NoDelegation
    /\ UNCHANGED <<history, tool_calls, child_calls, clarifier_calls, returned,
                   fixedVars>>

\* the completions of an LLM that answers with text, with blank text, or
\* with the terminal command
BlankNext ==
    \/ Call
    \/ BlankRound
    \/ Round(<<>>)
    \/ Round(<<Resp(TRUE, "done_tool", "none", "args0")>>)

SpecBlank == AgentNew("default", FALSE, MaxBlankRounds) /\ [][BlankNext]_vars

-----------------------------------------------------------------------------
(* The round loop: terminal action and round bound *)

Last(q) == q[Len(q)]

\* C3: a round whose completion is a well-formed done_tool command ends the
\* loop in that round, whatever max_rounds is and however many rounds were
\* used: the agent returns, that round runs no tool, no Clarifier and no
\* child, and afterwards no completion is requested and no action runs.
C3_TerminalHaltsSameRound ==
    [][ /\ (rounds' = rounds + 1 /\ Last(trace') = "done_tool")
            => /\ pc' = "done"
               /\ exc' = NoExc
               /\ tool_calls' = tool_calls
               /\ child_calls' = child_calls
               /\ clarifier_calls' = clarifier_calls
        /\ (pc = "done")
            => /\ rounds' = rounds
               /\ tool_calls' = tool_calls
               /\ child_calls' = child_calls
               /\ clarifier_calls' = clarifier_calls ]_vars

\* the agent returned on a done_tool round that was neither its first nor its
\* last allowed one
C3_Witness ==
    /\ pc = "done"
    /\ exc = NoExc
    /\ rounds >= 2
    /\ rounds < max_rounds
    /\ Last(trace) = "done_tool"

\* rounds of plain text, a malformed command, a tool error or a tool success
BasicKinds == {"text", "malformed", "tool1", "boom", "picky", "nope"}

OnlyBasic == \A i \in 1..Len(trace) : trace[i] \in BasicKinds

-----------------------------------------------------------------------------
(* Delegation and its retries *)

Overflowed(t) == t \in {"RunOutOfContextError", "ParentOutOfContextError"}

\* the latest round was a delegation and the Delegator is finished with it
DelegationOver ==
    /\ pc # "child"
    /\ trace # <<>>
    /\ Last(trace) = "delegate"
    /\ ends # <<>>

RECURSIVE Exchanges(_)
\* the messages ask_question commits for n questions
Exchanges(n) == IF n = 0 THEN <<>> ELSE <<"question", "answer">> \o Exchanges(n - 1)

\* C5: whenever an attempt of a delegation invokes the child (the first
\* attempt and every retry), the delegating node's committed history equals
\* the snapshot taken before the first attempt.
C5_HistoryRestoredAtEachAttempt ==
    [][ child_calls' = child_calls + 1
            => (history' = snap' /\ history' = backup') ]_vars

\* a retry has just invoked the child after an attempt in which the
\* delegating node had committed messages
C5_Witness ==
    /\ pc = "child"
    /\ attempt >= 2
    /\ asks = 0
    /\ undone
    /\ history = snap

TwoOverflowsThenSuccess ==
    /\ Len(ends) = 3
    /\ Overflowed(ends[1])
    /\ Overflowed(ends[2])
    /\ ends[3] = "returned"

AllOverflowed ==
    /\ Len(ends) = Retries
    /\ \A i \in 1..Len(ends) : Overflowed(ends[i])

ParentEnded == DelegationOver /\ Last(ends) = "ParentOutOfContextError"

\* C9 as claimed: an overflow that ask_question raised leaves the Delegator
\* unchanged, as ParentOutOfContextError.
C9_ParentOverflowUnchanged ==
    ParentEnded => (pc = "done" /\ exc = Exc("ParentOutOfContextError", "agent"))

\* C9 as amended: an overflow that ask_question raised leaves the Delegator
\* relabelled as RunOutOfContextError, with the same args.
C9_ParentOverflowRelabelled ==
    ParentEnded => (pc = "done" /\ exc = Exc("RunOutOfContextError", "agent"))

\* a delegation ended by the parent's overflow
C9_Witness == ParentEnded /\ pc = "done" /\ history = Append(snap, "question")

\* C37: the provisional rendered call written to the scratch before a
\* delegation never survives the delegate action: whenever the Delegator is
\* finished, by returning a response or by raising, the scratch holds the
\* sections it had before the command and at most one new section, the
\* preamble with the rendered result.
C37_ProvisionalCallRemoved ==
    DelegationOver =>
        \/ scratch = scratch_before
        \/ scratch = Append(scratch_before, "success")
        \/ scratch = Append(scratch_before, "error")

\* C36: the role-alternation assertions of ChatHistory never fail in a
\* reachable execution: add_prompter_message is only called on an even number
\* of committed messages and add_ai_message on an odd number, also in clarify
\* exchanges and when the same Agent object is called again.
C36_AlternationNeverFails == exc.type # "AssertionError"

-----------------------------------------------------------------------------
(* The budget abort inside the tree *)

\* this step raised the budget abort in a completion
AbortRaised ==
    \/ trace' = Append(trace, "abort")
    \/ ends' = Append(ends, "SystemExit")

\* C12: a budget abort raised while the top node, a child inside the retry
\* loop, or a parent answering a question is completing ends the whole
\* invocation with that abort: no retry follows it, no result is rendered
\* for it, and no node runs afterwards.
C12_AbortEndsWholeTree ==
    [][ /\ AbortRaised
            => /\ pc' = "done"
               /\ exc' = AbortExc
               /\ child_calls' = child_calls
               /\ attempt' = attempt
               /\ scratch' = scratch
        /\ (pc = "done" /\ exc = AbortExc) => vars' = vars ]_vars

\* the abort was raised while the parent answered the child's question in
\* a retried attempt of a delegation
C12_Witness ==
    /\ pc = "done"
    /\ exc = AbortExc
    /\ attempt >= 2
    /\ Last(ends) = "SystemExit"
    /\ history = Append(snap, "question")

-----------------------------------------------------------------------------
(* Action routing: tool errors, the leftmost command, syntax errors *)

\* this step is a round whose completion was received and classified
RoundStep ==
    /\ rounds' = rounds + 1
    /\ Last(trace') \notin {"overflow", "abort"}

\* the loop goes on after this step, or ends only because the rounds are used up
LoopGoesOn ==
    /\ rounds' < max_rounds => (pc' = "round" /\ exc' = NoExc)
    /\ rounds' >= max_rounds => (pc' = "done" /\ exc'.type = "TooManyRoundsError")

PathOf(action) ==
    IF action = "done_tool" THEN "terminal"
    ELSE IF action = "clarify" THEN "clarify"
    ELSE IF action = "delegate" THEN "delegate"
    ELSE "tool"

\* C15: in every round whose leftmost command region parses to a command,
\* exactly one of the four paths (terminal, tool invocation, escalation,
\* delegation) runs, chosen by the name of that leftmost command; the later
\* command regions of the completion cause no tool call, no escalation and no
\* delegation in that round.
C15_OnePathByLeftmost ==
    [][ (RoundStep /\ last_resp' # <<>> /\ last_resp'[1].parsed)
            => /\ path' = PathOf(last_resp'[1].action)
               /\ tool_calls' = tool_calls +
                    (IF last_resp'[1].action \in Tools THEN 1 ELSE 0)
               /\ clarifier_calls' = clarifier_calls +
                    (IF last_resp'[1].action = "clarify" THEN 1 ELSE 0)
               /\ child_calls' = child_calls +
                    (IF /\ last_resp'[1].action = "delegate"
                        /\ last_resp'[1].target \in SubAgents THEN 1 ELSE 0)
               /\ (pc' = "done" /\ exc' = NoExc)
                    <=> last_resp'[1].action = "done_tool" ]_vars

\* a completion held a tool command followed by a delegate command: the tool
\* ran, no child was invoked, and the loop goes on
C15_Witness ==
    /\ pc = "round"
    /\ Len(last_resp) = 2
    /\ last_resp[1].action = "tool1"
    /\ last_resp[2].action = "delegate"
    /\ path = "tool"
    /\ tool_calls = 1
    /\ child_calls = 0

\* C16: a round whose command region has a body that fails to parse is not
\* fatal, and the preamble with the syntax-error rendering is appended to the
\* node's scratch, so that the next round's context contains it.
C16_SyntaxErrorFolded ==
    [][ (RoundStep /\ Last(trace') = "malformed")
            => /\ scratch' = Append(scratch, "syntax_error")
               /\ LoopGoesOn ]_vars

\* C19: when the agent returns on a done_tool command with arguments A, the
\* value returned is the configured done_tool applied to A.
C19_ReturnsDoneToolResult ==
    (pc = "done" /\ exc = NoExc /\ path = "terminal")
        => returned = ApplyDoneTool(done_tool, last_resp[1].args)

\* C20: when a node that has a parent emits a clarify command, the parent's
\* ask_question is called exactly once in that round and the node resumes
\* its loop after the call returned.
C20_ParentAskedOnce ==
    [][ (RoundStep /\ Last(trace') = "clarify" /\ has_parent)
            => /\ parent_asked' = parent_asked + 1
               /\ LoopGoesOn ]_vars

-----------------------------------------------------------------------------
(* Escalation and configuration errors *)

\* C21: a clarify round commits the scratch with the preamble and the
\* inquiry as one assistant message, leaving the scratch empty, then commits
\* the parent's answer as a user-role message; no tool-result or tool-error
\* section is added to the scratch.
C21_AnswerFoldedAsUserMessage ==
    [][ (RoundStep /\ Last(trace') = "clarify")
            => /\ history' = history \o <<"ai", "answer">>
               /\ scratch' = <<>> ]_vars

\* C24: every call of an Agent object starts a fresh conversation: when its
\* loop is entered the committed history holds only the prompt built from
\* the given inputs and the scratch holds no section.
C24_FreshSubConversation ==
    [][ pc = "ready"
            => /\ pc' = "round"
               /\ history' = <<"prompt">>
               /\ scratch' = <<>> ]_vars

-----------------------------------------------------------------------------
(* The conversation: scratch, history, clone *)

\* C25: a round that completes without a pending action flushes the scratch
\* into one committed message: after a round whose completion was plain
\* text the scratch is empty and the history has one more message.
C25_PlainTextRoundFlushes ==
    [][ (RoundStep /\ Last(trace') = "text")
            => /\ scratch' = <<>>
               /\ Len(history') = Len(history) + 1 ]_vars

\* GeneratorWithRetries.__init__(llm, max_retries=3, max_continue=3)
MaxContinue == 3

RECURSIVE BlankRun(_)
\* the length of the run of blank completions that ends the trace
BlankRun(t) ==
    IF t = <<>> \/ Last(t) # "blank" THEN 0
    ELSE 1 + BlankRun(SubSeq(t, 1, Len(t) - 1))

\* C26: a blank completion is never an error; while the run of consecutive
\* blank completions is at most 3 long nothing is committed for it, and the
\* blank completion that makes the run longer than 3 has a continuation
\* prompt committed to the history as a user-role message.
C26_ContinuationInjected ==
    [][ (RoundStep /\ Last(trace') = "blank")
            => /\ LoopGoesOn
               /\ history' = IF BlankRun(trace') > MaxContinue
                             THEN Append(history, "continue")
                             ELSE history ]_vars

-----------------------------------------------------------------------------
(* ChatHistory objects: commit, clone, backup and restore *)

\* a clone that shares the message list of its source
clone_Alias(hp, r) == [lists |-> hp, ref |-> r]

\* ChatHistory.clone: a new ChatHistory whose message list is a copy,
\* self.thread.messages[:], of the list r
clone(hp, r) == [lists |-> Append(hp, hp[r]), ref |-> Len(hp) + 1]

\* the assertions of add_prompter_message and add_ai_message
CanAdd(role, messages) ==
    IF role = "user" THEN Len(messages) % 2 = 0 ELSE Len(messages) % 2 = 1

\* ChatHistory.add_prompter_message (role user) and add_ai_message (role ai)
\* on Agent.history
add_message(role) ==
    /\ history_ref # 0
    /\ Len(lists[history_ref]) < MaxMessages
    /\ IF CanAdd(role, lists[history_ref])
       THEN /\ lists' = [lists EXCEPT ![history_ref] = Append(@, role)]
            /\ hist_exc' = "none"
       ELSE /\ lists' = lists
            /\ hist_exc' = "AssertionError"
    /\ UNCHANGED <<history_ref, backup_ref, snapshot>>
    /\ UNCHANGED <<filterVars, agentVars, budgetVars, protoVars, dispVars, auxVars>>

\* Agent.backup_history
backup_history ==
    /\ history_ref # 0
    /\ Len(lists) < MaxObjects
    /\ lists' = clone(lists, history_ref).lists
    /\ backup_ref' = clone(lists, history_ref).ref
    /\ snapshot' = lists[history_ref]
    /\ hist_exc' = "none"
    /\ UNCHANGED history_ref
    /\ UNCHANGED <<filterVars, agentVars, budgetVars, protoVars, dispVars, auxVars>>

\* Agent.restore_history; before any backup the attribute does not exist
restore_history ==
    /\ history_ref # 0
    /\ Len(lists) < MaxObjects
    /\ IF backup_ref = 0
       THEN /\ hist_exc' = "AttributeError"
            /\ UNCHANGED <<lists, history_ref>>
       ELSE /\ lists' = clone(lists, backup_ref).lists
            /\ history_ref' = clone(lists, backup_ref).ref
            /\ hist_exc' = "none"
    /\ UNCHANGED <<backup_ref, snapshot>>
    /\ UNCHANGED <<filterVars, agentVars, budgetVars, protoVars, dispVars, auxVars>>

\* Agent.__init__: one ChatHistory without messages, no backup
HistInit ==
    /\ lists = << <<>> >>
    /\ history_ref = 1
    /\ backup_ref = 0
    /\ snapshot = <<>>
    /\ hist_exc = "none"
    /\ FilterStart
    /\ AgentIdle
    /\ BudgetIdle
    /\ ProtoIdle
    /\ DispIdle
    /\ AuxIdle

HistNext ==
    \/ \E role \in {"user", "ai"} : add_message(role)
    \/ backup_history
    \/ restore_history

SpecHistory == HistInit /\ [][HistNext]_vars

\* C27: the backup is independent of the live history: once taken it holds
\* the messages of the moment of backup_history whatever is appended to the
\* live history later, before or after a restore_history, and every
\* restore_history makes the live history equal to that snapshot.
C27_CloneIndependent ==
    /\ [](backup_ref # 0 => lists[backup_ref] = snapshot)
    /\ [][ (backup_ref # 0 /\ history_ref' # history_ref)
               => lists'[history_ref'] = snapshot ]_vars

\* after a backup and a restore, messages were appended to the live history
\* and a second restore was made
C27_Witness ==
    /\ backup_ref # 0
    /\ history_ref > backup_ref + 1
    /\ \E r \in (backup_ref + 1)..(history_ref - 1) : Len(lists[r]) > Len(snapshot)
    /\ snapshot # <<>>
    /\ lists[history_ref] = snapshot

\* C28: committing a user-role message when the last committed message is
\* user-role, or an assistant message when the last one is an assistant
\* message, appends the message.
C28_SameRoleTolerated ==
    [][ \A role \in {"user", "ai"} :
            (/\ add_message(role)
             /\ lists[history_ref] # <<>>
             /\ Last(lists[history_ref]) = role)
                => lists'[history_ref] = Append(lists[history_ref], role) ]_vars

\* a is b or a beginning of b
IsPrefix(a, b) == Len(a) <= Len(b) /\ SubSeq(b, 1, Len(a)) = a

\* C29: within one invocation the committed history at a round boundary is a
\* prefix of the committed history at every later round boundary: a round
\* only appends to it, and a delegation, whose restores roll back to the
\* snapshot taken on entering that round, ends with the snapshot or an
\* extension of it; the scratch keeps its sections in their order of
\* arrival: a step appends to it, replaces the provisional call of the
\* running delegation at its end, or flushes it whole.
C29_CommitsInRoundOrder ==
    [][ /\ pc \in {"ready", "round"} => IsPrefix(history, history')
        /\ (pc = "round" /\ pc' = "child") => snap' = history
        /\ pc = "child" => (snap' = snap /\ IsPrefix(snap, history'))
        /\ \/ scratch' = <<>>
           \/ IsPrefix(scratch, scratch')
           \/ /\ pc = "child"
              /\ Last(scratch) = "call"
              /\ Len(scratch') = Len(scratch)
              /\ IsPrefix(SubSeq(scratch, 1, Len(scratch) - 1), scratch') ]_vars

\* a second delegation of the invocation ended at a round boundary, after a
\* retry had rolled back what the node had committed, with the messages of
\* the first delegation still in the history and two results in the scratch
C29_Witness ==
    /\ pc = "round"
    /\ DelegationOver
    /\ undone
    /\ Len(snap) > 1
    /\ history # snap
    /\ Len(scratch) >= 2

\* C30: an invocation whose completions and tool calls all return ends in
\* one of three states: Solved (a value is returned), Exhausted
\* (TooManyRoundsError) or Aborted (the budget abort).
C30_EndsSolvedExhaustedOrAborted ==
    (pc = "done" /\ ~Overflowed(exc.type))
        => \/ exc = NoExc /\ returned # "none"
           \/ exc.type = "TooManyRoundsError"
           \/ exc = AbortExc

-----------------------------------------------------------------------------
(* TokenBudget and run_agent *)

\* a check that also aborts when the count reaches the quota
Exceeds_AtQuota(total, quota) == total >= quota

\* TokenBudget._check: total > self.quota
Exceeds(total, quota) == total > quota

\* TokenBudget.increment: the count after n more tokens
Increment(n_tokens, n) == n_tokens + n

\* run_agent.on_token, called for every TokenArrivedEvent
budget_on_token ==
    /\ aborted = "no"
    /\ out_n' = Increment(out_n, 1)
    /\ aborted' = IF Exceeds(Increment(out_n, 1), max_gen) THEN "gen" ELSE "no"
    /\ generating' = TRUE
    /\ UNCHANGED <<max_eval, max_gen, max_total, in_n, total_n>>
    /\ UNCHANGED <<filterVars, agentVars, protoVars, dispVars, histVars, auxVars>>

\* run_agent.on_complete, called for the GenerationCompleteEvent of a round
on_complete(num_eval) ==
    /\ aborted = "no"
    /\ in_n' = Increment(in_n, num_eval)
    /\ aborted' = IF Exceeds(Increment(in_n, num_eval), max_eval) THEN "eval"
                  ELSE IF Increment(in_n, num_eval) + out_n > max_total THEN "total"
                  ELSE "no"
    /\ generating' = FALSE
    /\ UNCHANGED <<max_eval, max_gen, max_total, out_n, total_n>>
    /\ UNCHANGED <<filterVars, agentVars, protoVars, dispVars, histVars, auxVars>>

\* run_agent up to the call of the agent: three budgets, none counted yet
BudgetInit ==
    /\ max_eval \in 1..MaxQuota
    /\ max_gen \in 1..MaxQuota
    /\ max_total \in 1..MaxQuota
    /\ in_n = 0
    /\ out_n = 0
    /\ total_n = 0
    /\ generating = FALSE
    /\ aborted = "no"
    /\ FilterStart
    /\ AgentIdle
    /\ ProtoIdle
    /\ DispIdle
    /\ HistIdle
    /\ AuxIdle

BudgetNext ==
    \/ budget_on_token
    \/ \E num_eval \in 0..MaxEval : on_complete(num_eval)

SpecBudget == BudgetInit /\ [][BudgetNext]_vars

\* C10: the run is never aborted for a counter whose cumulative count is
\* within its quota, and once a count exceeds its quota the run is aborted
\* by the end of that round at the latest: the generated and evaluated counts
\* abort at the increment, the combined count at the round's completion.
C10_AbortedExactlyWhenExceeded ==
    /\ aborted = "gen" => out_n > max_gen
    /\ aborted = "eval" => in_n > max_eval
    /\ aborted = "total" => in_n + out_n > max_total
    /\ aborted = "no" => (out_n <= max_gen /\ in_n <= max_eval)
    /\ (aborted = "no" /\ ~generating) => in_n + out_n <= max_total

\* the combined count exceeded its quota within a round and the run was
\* aborted at that round's completion, the two other counts within quota
C10_Witness ==
    /\ aborted = "total"
    /\ out_n <= max_gen
    /\ in_n <= max_eval
    /\ out_n > 0
    /\ in_n > 0

\* C11: no further token is accepted after a counter (generated, evaluated
\* or the combined total) exceeded its quota at an earlier token arrival:
\* every quota is enforced at the next token arrival at the latest.
C11_NoTokenAfterExceeded ==
    [][ (out_n' = out_n + 1 /\ aborted' = "no")
            => /\ out_n <= max_gen
               /\ in_n <= max_eval
               /\ ~(generating /\ in_n + out_n > max_total) ]_vars

-----------------------------------------------------------------------------
(* run_agent invoked more than once: the subscribers of the messenger *)

\* the budgets one run_agent invocation creates, whose two handlers it
\* subscribes to the module-level messenger
NewBudget(qe, qg, qt) ==
    [max_eval |-> qe, max_gen |-> qg, max_total |-> qt, in_n |-> 0, out_n |-> 0]

\* run_agent.on_token of the invocation with the budgets b calls sys.exit
TokenExits(b) == Exceeds(Increment(b.out_n, 1), b.max_gen)

\* run_agent.on_complete of the invocation with the budgets b calls sys.exit
CompleteExits(b, n) ==
    \/ Exceeds(Increment(b.in_n, n), b.max_eval)
    \/ Increment(b.in_n, n) + b.out_n > b.max_total

\* the lowest of the positions in hits, 0 when there is none
FirstOf(hits) ==
    IF hits = {} THEN 0 ELSE CHOOSE k \in hits : \A j \in hits : k <= j

\* Messenger.publish: the callables subscribed for the event type are called
\* in the order of their subscription, up to the first one that exits
Received(k, i) == k = 0 \/ i <= k

\* run_agent, lines 498-519: the budgets are created and the handlers
\* subscribed
run_agent(qe, qg, qt) ==
    /\ current = 0
    /\ abort_by = 0
    /\ Len(budgets) < MaxRuns
    /\ budgets' = Append(budgets, NewBudget(qe, qg, qt))
    /\ current' = Len(budgets) + 1
    /\ UNCHANGED <<abort_by, renderVars, treeVars>>
    /\ UNCHANGED <<filterVars, agentVars, budgetVars, protoVars, dispVars, histVars>>

\* messenger.publish(TokenArrivedEvent(token)) while an invocation runs
publish_token ==
    LET k == FirstOf({i \in 1..Len(budgets) : TokenExits(budgets[i])})
    IN  /\ current # 0
        /\ abort_by = 0
        /\ budgets' = [i \in 1..Len(budgets) |->
                          IF Received(k, i)
                          THEN [budgets[i] EXCEPT !.out_n = Increment(@, 1)]
                          ELSE budgets[i]]
        /\ abort_by' = k
        /\ UNCHANGED <<current, renderVars, treeVars>>
        /\ UNCHANGED <<filterVars, agentVars, budgetVars, protoVars, dispVars, histVars>>

\* messenger.publish(GenerationCompleteEvent(data)) while an invocation runs
publish_complete(num_eval) ==
    LET k == FirstOf({i \in 1..Len(budgets) : CompleteExits(budgets[i], num_eval)})
    IN  /\ current # 0
        /\ abort_by = 0
        /\ budgets' = [i \in 1..Len(budgets) |->
                          IF Received(k, i)
                          THEN [budgets[i] EXCEPT !.in_n = Increment(@, num_eval)]
                          ELSE budgets[i]]
        /\ abort_by' = k
        /\ UNCHANGED <<current, renderVars, treeVars>>
        /\ UNCHANGED <<filterVars, agentVars, budgetVars, protoVars, dispVars, histVars>>

\* run_agent, line 521: the agent returns and so does run_agent
agent_returns ==
    /\ current # 0
    /\ abort_by = 0
    /\ current' = 0
    /\ UNCHANGED <<budgets, abort_by, renderVars, treeVars>>
    /\ UNCHANGED <<filterVars, agentVars, budgetVars, protoVars, dispVars, histVars>>

\* the process before its first run_agent: the messenger has no subscriber
RunInit ==
    /\ RunIdle
    /\ RenderIdle
    /\ TreeIdle
    /\ FilterStart
    /\ AgentIdle
    /\ BudgetIdle
    /\ ProtoIdle
    /\ DispIdle
    /\ HistIdle

RunNext ==
    \/ \E qe \in 1..MaxQuota, qg \in 1..MaxQuota, qt \in 1..MaxQuota :
            run_agent(qe, qg, qt)
    \/ publish_token
    \/ \E num_eval \in 0..MaxEval : publish_complete(num_eval)
    \/ agent_returns

SpecRuns == RunInit /\ [][RunNext]_vars

\* C38: budget accounting is isolated per top-level invocation: the events of
\* one run_agent invocation never increment the counters another invocation
\* created, and an invocation is aborted only by its own counters and quotas.
C38_BudgetsIsolated ==
    [][ \A i \in 1..Len(budgets) :
            (budgets'[i] # budgets[i] \/ (abort_by = 0 /\ abort_by' = i))
                => i = current ]_vars

-----------------------------------------------------------------------------
(* The agent tree: add_subagent *)

Nodes == 1..MaxNodes

\* Agent.add_subagent(name, sub_agent) on the node n with the agent c: c is
\* registered in n.sub_agents and c.parent is assigned n
add_subagent(n, c) ==
    /\ sub_agents' = [sub_agents EXCEPT ![n] = @ \cup {c}]
    /\ parent' = [parent EXCEPT ![c] = n]
    /\ UNCHANGED <<renderVars, runVars>>
    /\ UNCHANGED <<filterVars, agentVars, budgetVars, protoVars, dispVars, histVars>>

\* the agents as Agent.__init__ leaves them: no parent (0), no sub-agent
TreeInit ==
    /\ parent = [n \in Nodes |-> 0]
    /\ sub_agents = [n \in Nodes |-> {}]
    /\ RenderIdle
    /\ RunIdle
    /\ FilterStart
    /\ AgentIdle
    /\ BudgetIdle
    /\ ProtoIdle
    /\ DispIdle
    /\ HistIdle

TreeNext == \E n \in Nodes, c \in Nodes : add_subagent(n, c)

SpecTree == TreeInit /\ [][TreeNext]_vars

\* C39: after any sequence of add_subagent calls, every child c registered
\* in the sub_agents of a node n has n as its parent, so an escalation from a
\* child that n delegated to is answered by n, also when the same agent
\* object is registered as a sub-agent of several nodes.
C39_ParentIsRegisteringNode ==
    \A n \in Nodes : \A c \in sub_agents[n] : parent[c] = n

-----------------------------------------------------------------------------
(* The tag protocol on texts: find, parse and its repair, the classifier *)

\* the characters of a command body: braces of the JSON object, t for the
\* "tool_name" key with its value, a for any other JSON content
BodyAlphabet == {"{", "}", "t", "a"}

Strings(alphabet, n) == UNION {[1..k -> alphabet] : k \in 0..n}

Bodies == Strings(BodyAlphabet, MaxBody)

\* texts that hold a second start delimiter after the first: two command
\* regions, or a start delimiter that no end delimiter closes and then a region
TwoCommands ==
    {start_tag \o b1 \o mid \o start_tag \o b2 \o end_tag :
        b1 \in {<<>>, <<"a">>}, mid \in {<<>>, end_tag, end_tag \o <<"a">>},
        b2 \in {<<"t">>, <<"{", "}">>}}

\* completion texts: any short text, and texts built around a command region
Texts ==
    Strings(Alphabet, MaxPlain)
    \cup {pre \o start_tag \o b \o end_tag \o post :
            pre \in {<<>>, <<"a">>}, b \in Bodies, post \in {<<>>, <<"a">>}}
    \cup TwoCommands

\* a pattern start(.*)end, whose body may hold a "<"
find_matches_AnyBody(s, p) ==
    /\ OccursAt(s, start_tag, p)
    /\ \E q \in (p + Len(start_tag))..Len(s) : OccursAt(s, end_tag, q)

\* GenericToolUse.find's pattern start([^<]*)end matches s at offset p
find_matches(s, p) == \E q \in 0..Len(s) : IsRegion(s, p, q)

\* ToolUse.contains_tool_use on a text: find does not raise ToolUseNotFoundError
text_contains_tool_use(s) == \E p \in 0..Len(s) : find_matches(s, p)

\* match.start() of the rightmost match
find_offset_Last(s) == CHOOSE p \in 0..Len(s) :
    /\ find_matches(s, p)
    /\ \A j \in (p + 1)..Len(s) : ~find_matches(s, j)

\* GenericToolUse.find: match.start() of the leftmost match
find_offset(s) == CHOOSE p \in 0..Len(s) :
    /\ find_matches(s, p)
    /\ \A j \in 0..(p - 1) : ~find_matches(s, j)

\* GenericToolUse.find: match.group(1), the text between the start delimiter
\* of the match and the end delimiter that follows it
find_body(s) ==
    LET from == find_offset(s) + Len(start_tag)
    IN  SliceTo(s, from, from + Index(Slice(s, from), end_tag))

\* GenericToolUse.find: offset, length and body of the leftmost match, or
\* ToolUseNotFoundError when the pattern matches nowhere
Found(s) ==
    IF ~text_contains_tool_use(s)
    THEN [NoOut EXCEPT !.kind = "raised", !.raised = "ToolUseNotFoundError"]
    ELSE [NoOut EXCEPT !.kind = "found",
                       !.offset = find_offset(s),
                       !.length = Len(start_tag) + Len(find_body(s)) + Len(end_tag),
                       !.content = find_body(s)]

\* the nesting depth after the first i characters of t
Depth(t, i) ==
    Cardinality({k \in 1..i : t[k] = "{"}) - Cardinality({k \in 1..i : t[k] = "}"})

\* json.loads and the test 'tool_name' in data: the text is not JSON, is JSON
\* but no object, is an object with the key, or an object without it
JsonLoads(t) ==
    IF t = <<"a">> THEN "scalar"
    ELSE IF /\ Len(t) >= 2
            /\ t[1] = "{"
            /\ Depth(t, Len(t)) = 0
            /\ \A i \in 1..(Len(t) - 1) : Depth(t, i) >= 1
         THEN IF \E i \in 1..Len(t) : t[i] = "t" /\ Depth(t, i) = 1
              THEN "named" ELSE "unnamed"
         ELSE "decode_error"

\* GenericToolUse.parse: what it raises, and the text whose parsing decided it
BaseParse(t) ==
    [raised |-> IF JsonLoads(t) = "named" THEN "none"
                ELSE IF JsonLoads(t) = "scalar" THEN "TypeError"
                ELSE "ValueError",
     on |-> t]

Parsed(raised, on, attempts, braces) ==
    [raised |-> raised, on |-> on, attempts |-> attempts, braces |-> braces]

\* SimpleTagBasedToolUse.parse: one repair with a closing brace; attempts
\* counts the calls of GenericToolUse.parse, braces the braces appended
SimpleParse(t) ==
    LET r1 == BaseParse(t)
        r2 == BaseParse(Append(t, "}"))
    IN  IF r1.raised # "ValueError" THEN Parsed(r1.raised, r1.on, 1, 0)
        ELSE IF r2.raised = "none" THEN Parsed("none", r2.on, 2, 1)
        ELSE Parsed(r1.raised, r1.on, 2, 1)

\* ToolAugmentedTextCompleter._parse around the default tool_use_helper
CompleterParse(body) ==
    LET p1 == SimpleParse(body)
        p2 == SimpleParse(Append(body, "}"))
    IN  IF p1.raised # "ValueError" THEN p1
        ELSE IF p2.raised = "none"
        THEN Parsed("none", p2.on, p1.attempts + p2.attempts, 1 + p2.braces)
        ELSE Parsed(p1.raised, p1.on, p1.attempts + p2.attempts, 1 + p2.braces)

Out(kind, content, p) ==
    [kind |-> kind, content |-> content, raised |-> p.raised, on |-> p.on,
     attempts |-> p.attempts, braces |-> p.braces, offset |-> 0, length |-> 0]

NotParsed == Parsed("none", <<>>, 0, 0)

\* GenericToolUse.render_with_syntax_error: the body between the command
\* delimiters, then the error between the error delimiters
render_with_syntax_error(body) ==
    start_tag \o body \o end_tag \o <<"<", "!">> \o <<"<", "/">>

\* ToolAugmentedTextCompleter._finalize
Finalized(s) ==
    IF ~text_contains_tool_use(s) THEN Out("regular", s, NotParsed)
    ELSE LET pre == SliceTo(s, 0, find_offset(s))
             p == CompleterParse(find_body(s))
         IN  IF p.raised = "ValueError"
             THEN Out("regular", pre \o render_with_syntax_error(find_body(s)), p)
             ELSE IF p.raised = "TypeError" THEN Out("raised", <<>>, p)
             ELSE Out("command", pre, p)

\* Agent.__call__, lines 185-188: the section written for a completion that
\* holds no command; any other completion goes to the processor
WrittenBack(s) ==
    IF ~text_contains_tool_use(s) THEN Out("section", s, NotParsed)
    ELSE Out("processor", <<>>, NotParsed)

Apply(name, result) ==
    /\ op = "none"
    /\ op' = name
    /\ out' = result
    /\ UNCHANGED <<text, filterVars, agentVars, budgetVars, dispVars, histVars,
                   auxVars>>

finalize == Apply("finalize", Finalized(text))

write_back == Apply("write_back", WrittenBack(text))

parse == Apply("parse", Out("parsed", <<>>, SimpleParse(text)))

completer_parse == Apply("completer_parse", Out("parsed", <<>>, CompleterParse(text)))

\* ToolUse.find on the text
find_tool_use == Apply("find", Found(text))

ProtoInit ==
    /\ text \in Texts \cup Bodies
    /\ op = "none"
    /\ out = NoOut
    /\ FilterStart
    /\ AgentIdle
    /\ BudgetIdle
    /\ DispIdle
    /\ HistIdle
    /\ AuxIdle

ProtoNext ==
    \/ finalize
    \/ write_back
    \/ parse
    \/ completer_parse
    \/ find_tool_use

SpecProtocol == ProtoInit /\ [][ProtoNext]_vars

\* the text holds a start delimiter followed, with no "<" in between, by an
\* end delimiter
HasRegion(s) == \E p \in 0..Len(s), q \in 0..Len(s) : IsRegion(s, p, q)

\* C17: for every completion text in which no command region is found, the
\* classifier returns a regular response whose content is the input text, no
\* body is parsed and no action runs, and the agent writes that unchanged
\* text to its scratch as one section.
C17_PlainTextUnchanged ==
    ~HasRegion(text) =>
        /\ op = "finalize" => out = Out("regular", text, NotParsed)
        /\ op = "write_back" => out = Out("section", text, NotParsed)

\* a text that holds a start delimiter but no command region was classified
C17_Witness ==
    /\ op = "finalize"
    /\ Contains(text, start_tag)
    /\ ~HasRegion(text)
    /\ out.kind = "regular"
    /\ out.content = text

\* C18: parsing one command body makes at most two parse attempts and
\* appends at most one closing brace, and when the body cannot be parsed the
\* error reported is the one of the first attempt, on the body as it arrived.
C18_OneRepairAttempt ==
    op \in {"parse", "completer_parse"} =>
        /\ out.attempts <= 2
        /\ out.braces <= 1
        /\ out.raised = "ValueError" => out.on = text

\* C31: find returns the leftmost well-formed command region of the text: the
\* offset is the index of its start delimiter, the length covers both
\* delimiters and the body, and the body holds no "<"; it raises
\* ToolUseNotFoundError exactly when the text holds no start delimiter that is
\* followed, with no "<" in between, by an end delimiter.
C31_FindLeftmostRegion ==
    op = "find" =>
        IF HasRegion(text)
        THEN /\ out.kind = "found"
             /\ out.raised = "none"
             /\ IsRegion(text, out.offset, out.offset + out.length - Len(end_tag))
             /\ SliceTo(text, out.offset, out.offset + out.length)
                    = start_tag \o out.content \o end_tag
             /\ \A k \in 1..Len(out.content) : out.content[k] # "<"
             /\ \A p \in 0..(out.offset - 1), q \in 0..Len(text) :
                    ~IsRegion(text, p, q)
        ELSE /\ out.kind = "raised"
             /\ out.raised = "ToolUseNotFoundError"

\* find returned the first of two regions of a text
C31_Witness ==
    /\ op = "find"
    /\ out.kind = "found"
    /\ out.content # <<>>
    /\ \E p \in (out.offset + out.length)..Len(text), q \in 0..Len(text) :
            IsRegion(text, p, q)

-----------------------------------------------------------------------------
(* Rendering a command, and reading a rendered command back *)

\* tool names, argument keys and string values
Words == {<<"a">>, <<"<">>, <<"a", "<">>}

\* argument mappings: empty, or one key with one string value
ArgDicts == {<<>>} \cup {<< <<k, v>> >> : k \in Words, v \in Words}

\* what a tool or a delegated child returned
Results == {"0", "False", "''", "[]", "5"}

Calls == {[name |-> n, args |-> a, result |-> r] :
            n \in Words, a \in ArgDicts, r \in Results}

\* a JSON string: json.dumps escapes the quote and the backslash, not "<"
Quote(w) == <<"\"">> \o w \o <<"\"">>

\* json.dumps of an argument mapping
DumpArgs(a) ==
    IF a = <<>> THEN <<"{", "}">>
    ELSE <<"{">> \o Quote(a[1][1]) \o <<":">> \o Quote(a[1][2]) \o <<"}">>

\* json.dumps({'tool_name': tool_name, 'args': arg_dict}); the key "tool_name"
\* is written t and the key "args" is written r
Dumps(n, a) ==
    <<"{", "t", ":">> \o Quote(n) \o <<",", "r", ":">> \o DumpArgs(a) \o <<"}">>

\* GenericToolUse.render: call_template.format(body)
render(n, a) == start_tag \o Dumps(n, a) \o end_tag

\* the offsets of the quotes of t, in ascending order
QuoteAt(t, n) == CHOOSE i \in 1..Len(t) :
    /\ t[i] = "\""
    /\ Cardinality({j \in 1..i : t[j] = "\""}) = n

QuoteCount(t) == Cardinality({j \in 1..Len(t) : t[j] = "\""})

\* the n-th string of t: the text between quote 2n-1 and quote 2n
StringAt(t, n) == SubSeq(t, QuoteAt(t, 2 * n - 1) + 1, QuoteAt(t, 2 * n) - 1)

Read(raised, n, a) == [raised |-> raised, name |-> n, args |-> a]

\* json.loads of a payload and GenericToolUse.parse's reading of it: the
\* strings of the text are taken from between its quotes, and the text is
\* accepted when it is the JSON object of that name and those arguments
Loads(t) ==
    LET n == StringAt(t, 1)
        a == IF QuoteCount(t) = 6 THEN << <<StringAt(t, 2), StringAt(t, 3)>> >>
             ELSE <<>>
    IN  IF QuoteCount(t) \in {2, 6} /\ Dumps(n, a) = t
        THEN Read("none", n, a)
        ELSE Read("ValueError", <<>>, <<>>)

\* SimpleTagBasedToolUse.parse: the repair with one closing brace
ParseCall(t) ==
    IF Loads(t).raised = "none" THEN Loads(t)
    ELSE IF Loads(Append(t, "}")).raised = "none" THEN Loads(Append(t, "}"))
    ELSE Loads(t)

\* find on a rendered text, then parse on the body found
ReadBack(s) ==
    IF ~text_contains_tool_use(s) THEN Read("ToolUseNotFoundError", <<>>, <<>>)
    ELSE ParseCall(find_body(s))

result_start_tag == <<"<", "r">>
result_end_tag == <<"<", "/">>

\* str(result), as str.format writes a value
Str(r) ==
    CASE r = "0" -> <<"0">>
      [] r = "False" -> <<"F", "a", "l", "s", "e">>
      [] r = "''" -> <<>>
      [] r = "[]" -> <<"[", "]">>
      [] r = "5" -> <<"5">>

\* bool(result) is False
Falsy(r) == r \in {"0", "False", "''", "[]"}

\* GenericToolUse.render_with_success: result = result or ''
Payload(r) == IF Falsy(r) THEN <<>> ELSE Str(r)

\* GenericToolUse.render_with_success: success_template.format(body, result)
render_with_success(n, a, r) ==
    start_tag \o Dumps(n, a) \o end_tag
        \o result_start_tag \o Payload(r) \o result_end_tag

Rendering(by, t) ==
    /\ rendered.by = "none"
    /\ rendered' = [by |-> by, text |-> t]
    /\ UNCHANGED <<call, reparsed, runVars, treeVars>>
    /\ UNCHANGED <<filterVars, agentVars, budgetVars, protoVars, dispVars, histVars>>

render_call == Rendering("render", render(call.name, call.args))

render_success ==
    Rendering("render_with_success",
              render_with_success(call.name, call.args, call.result))

\* tool_use_helper.find and tool_use_helper.parse on a rendered command
read_back ==
    /\ rendered.by = "render"
    /\ reparsed = NotRead
    /\ reparsed' = ReadBack(rendered.text)
    /\ UNCHANGED <<call, rendered, runVars, treeVars>>
    /\ UNCHANGED <<filterVars, agentVars, budgetVars, protoVars, dispVars, histVars>>

RenderInit ==
    /\ call \in Calls
    /\ rendered = [by |-> "none", text |-> <<>>]
    /\ reparsed = NotRead
    /\ RunIdle
    /\ TreeIdle
    /\ FilterStart
    /\ AgentIdle
    /\ BudgetIdle
    /\ ProtoIdle
    /\ DispIdle
    /\ HistIdle

RenderNext ==
    \/ render_call
    \/ render_success
    \/ read_back

SpecRender == RenderInit /\ [][RenderNext]_vars

\* the word holds no "<", the first character of every delimiter
NoDelimiter(w) == \A i \in 1..Len(w) : w[i] # "<"

\* C32: for every name and argument mapping whose values hold no delimiter
\* character, finding and parsing the command that render produced gives back
\* exactly the name and the argument mapping.
C32_RenderParseRoundTrip ==
    (/\ reparsed # NotRead
     /\ NoDelimiter(call.name)
     /\ \A i \in 1..Len(call.args) : NoDelimiter(call.args[i][2]))
        => reparsed = Read("none", call.name, call.args)

\* C40: the success section rendered for a result r carries str(r) as its
\* result payload, also for 0, False, the empty string and the empty list, so
\* two different results never render to the same success text.
C40_SuccessCarriesResult ==
    rendered.by = "render_with_success" =>
        rendered.text = start_tag \o Dumps(call.name, call.args) \o end_tag
                            \o result_start_tag \o Str(call.result)
                            \o result_end_tag

-----------------------------------------------------------------------------
(* ToolAugmentedTextCompleter: routing a parsed command *)

\* the handlers ToolAugmentedTextCompleter._perform_action registers
Handlers == {"clarify", "delegate", "use_tool"}

\* parsed commands: the tool_name, and args["name"] where a handler reads it
Commands ==
    {[action |-> a, name |-> "none"] :
        a \in {"done_tool", "failure", "clarify", "tool1", "boom", "picky", "nope"}}
    \cup {[action |-> "delegate", name |-> n] : n \in {"subagent", "ghost"}}
    \cup {[action |-> "use_tool", name |-> n] : n \in {"tool1", "boom", "picky", "nope"}}

\* what a call of the sub-agent ends with: it returns, or an exception leaves it
ChildEnds == {"returned", "TooManyRoundsError", "RunOutOfContextError", "SystemExit"}

\* handle_clarify: agent.parent.ask_question(text); the exception it raises,
\* "none" when it returned
handle_clarify(p) == IF p THEN "none" ELSE "AttributeError"

\* handle_delegate: agent.sub_agents[name](sub_agent_inputs)
handle_delegate(name, end) ==
    IF name \notin SubAgents THEN "KeyError"
    ELSE IF end = "returned" THEN "none"
    ELSE end

\* handle_tool_use: the lookup, then the tool called without a translation
\* of what it raises
handle_tool_use(name) ==
    IF name \notin Tools THEN "ToolDoesNotExistError" ELSE ToolRaises(name)

\* ActionDispatcher.__call__ with the handlers of _perform_action
Dispatch(c, p, end) ==
    IF c.action = "failure" THEN "ToolUseFailedError"
    ELSE IF c.action \notin Handlers THEN use_tool(c.action).type
    ELSE IF c.action = "clarify" THEN handle_clarify(p)
    ELSE IF c.action = "delegate" THEN handle_delegate(c.name, end)
    ELSE handle_tool_use(c.name)

Reply(kind, section, raised) ==
    [kind |-> kind, section |-> section, raised |-> raised, callees |-> {}]

\* ToolAugmentedTextCompleter._perform_action: the value or the exception
PerformAction(c, p, end) ==
    IF Dispatch(c, p, end) = "none" THEN Reply("value", "none", "none")
    ELSE Reply("raised", "none", Dispatch(c, p, end))

\* ToolAugmentedTextCompleter._get_tool_use_response: a SolutionResponse, a
\* RegularResponse with the success or the error rendering, or an exception
GetToolUseResponse(c, p, end) ==
    IF c.action = "done_tool" THEN Reply("solution", "none", "none")
    ELSE IF Dispatch(c, p, end) = "none" THEN Reply("regular", "success", "none")
    ELSE IF ExceptException(Exc(Dispatch(c, p, end), "none"))
    THEN Reply("regular", "error", "none")
    ELSE Reply("raised", "none", Dispatch(c, p, end))

Route(name, r) ==
    /\ called = "none"
    /\ called' = name
    /\ reply' = r
    /\ UNCHANGED <<command, parent_set, child_end, handlers>>
    /\ UNCHANGED <<filterVars, agentVars, budgetVars, protoVars, histVars, auxVars>>

perform_action ==
    Route("perform_action", PerformAction(command, parent_set, child_end))

get_tool_use_response ==
    Route("get_tool_use_response",
          GetToolUseResponse(command, parent_set, child_end))

\* a handler registered under name n: the exception it raises, "none" when it
\* returned; a handler that is not one of the three of completion.py returns
\* its arguments, as the handlers of TestActionDispatcher do
handler(n, c, p, end) ==
    IF n = "clarify" THEN handle_clarify(p)
    ELSE IF n = "delegate" THEN handle_delegate(c.name, end)
    ELSE IF n = "use_tool" THEN handle_tool_use(c.name)
    ELSE "none"

\* what one call of an ActionDispatcher did: the callees it invoked and the
\* exception that left it
Dispatched(callees, raised) ==
    [Reply(IF raised = "none" THEN "value" ELSE "raised", "none", raised)
        EXCEPT !.callees = callees]

\* a dispatcher that looks the name up among the tools first
ActionDispatcher_ToolFirst(h, c, p, end) ==
    IF c.action = "failure" THEN Dispatched({}, "ToolUseFailedError")
    ELSE IF c.action \in Tools THEN Dispatched({"tool"}, use_tool(c.action).type)
    ELSE IF c.action \in h THEN Dispatched({"handler"}, handler(c.action, c, p, end))
    ELSE Dispatched({}, "ToolDoesNotExistError")

\* ActionDispatcher.__call__ of a dispatcher built with the handlers h
ActionDispatcher(h, c, p, end) ==
    IF c.action = "failure" THEN Dispatched({}, "ToolUseFailedError")
    ELSE IF c.action \notin h
    THEN IF c.action \notin Tools THEN Dispatched({}, "ToolDoesNotExistError")
         ELSE Dispatched({"tool"}, use_tool(c.action).type)
    ELSE Dispatched({"handler"}, handler(c.action, c, p, end))

\* ActionDispatcher(agent, handlers)(action_name, arg_dict)
dispatch ==
    Route("dispatch", ActionDispatcher(handlers, command, parent_set, child_end))

\* the action_handlers a dispatcher is built with: the ones of
\* _perform_action, none, and a set in which a handler has the name of a tool
\* and one the name "failure"
HandlerSets == {Handlers, {}, Handlers \cup {"tool1", "boom", "failure"}}

\* a completer built for an agent with or without a parent, given a command
DispInit ==
    /\ command \in Commands
    /\ parent_set \in BOOLEAN
    /\ child_end \in ChildEnds
    /\ called = "none"
    /\ reply = NoReply
    /\ handlers \in HandlerSets
    /\ FilterStart
    /\ AgentIdle
    /\ BudgetIdle
    /\ ProtoIdle
    /\ HistIdle
    /\ AuxIdle

DispNext ==
    \/ perform_action
    \/ get_tool_use_response
    \/ dispatch

SpecDispatch == DispInit /\ [][DispNext]_vars

\* the command escalates from a node without a parent, or delegates to a
\* name that is not registered
ConfigError ==
    \/ command.action = "clarify" /\ ~parent_set
    \/ command.action = "delegate" /\ command.name \notin SubAgents

\* C22: a clarify command on a node without a parent and a delegate command
\* naming an unregistered sub-agent end with an exception that leaves the
\* router: the failure is not rendered as an error result.
C22_ConfigErrorFatal ==
    (called = "get_tool_use_response" /\ ConfigError)
        => (reply.kind = "raised" /\ reply.section = "none")

\* C23: when the child of a delegation ends with TooManyRoundsError, that
\* error leaves the router of the delegating node: it is not rendered as an
\* error result.
C23_ChildRoundBoundFatal ==
    (/\ called = "get_tool_use_response"
     /\ command = [action |-> "delegate", name |-> "subagent"]
     /\ child_end = "TooManyRoundsError")
        => reply = Reply("raised", "none", "TooManyRoundsError")

\* C33: ActionDispatcher resolves an action name in a fixed order and invokes
\* at most one callee: "failure" raises ToolUseFailedError before any lookup;
\* otherwise a handler registered under the name is called, also when a tool
\* has the same name; otherwise the tool of that name is called; otherwise
\* ToolDoesNotExistError is raised.
C33_ResolutionOrder ==
    called = "dispatch" =>
        /\ Cardinality(reply.callees) <= 1
        /\ IF command.action = "failure"
           THEN reply.callees = {} /\ reply.raised = "ToolUseFailedError"
           ELSE IF command.action \in handlers
           THEN /\ reply.callees = {"handler"}
                /\ reply.raised = handler(command.action, command, parent_set, child_end)
           ELSE IF command.action \in Tools
           THEN /\ reply.callees = {"tool"}
                /\ reply.raised = use_tool(command.action).type
           ELSE reply.callees = {} /\ reply.raised = "ToolDoesNotExistError"

\* a handler registered under the name of a tool that raises was called, and
\* returned
C33_Witness ==
    /\ called = "dispatch"
    /\ command.action = "boom"
    /\ command.action \in handlers
    /\ command.action \in Tools
    /\ reply.callees = {"handler"}
    /\ reply.raised = "none"


=============================================================================
